---- MODULE Spec2Model ----
(***************************************************************************)
(* Model of ros2-teleop (ROS2/zenoh-rust-teleop/src/bin/ros2-teleop.rs).   *)
(*                                                                         *)
(* Two tasks share one bounded mpsc channel:                               *)
(*   - the input reader (tokio::spawn, lines 152-185) reads terminal       *)
(*     events, stops on a quit key or a read error and relays the rest;    *)
(*   - the events management loop of main (lines 190-232) selects between  *)
(*     the zenoh subscriber stream and the channel, renders Log samples    *)
(*     and publishes a Twist per arrow/space key; after the loop it        *)
(*     publishes a stop Twist and disables raw mode (lines 233-235).       *)
(*                                                                         *)
(* f64 scale values are modelled by integers: the only arithmetic the      *)
(* program does on them is 1.0 * s and -1.0 * s, which is exact.           *)
(***************************************************************************)
EXTENDS Integers, Sequences, FiniteSets, TLC

\* ------------------------------------------------------------------ bounds

\* Number of terminal events the reader may read in one run.
MaxReads == 3

\* Number of samples the subscriber may deliver in one run.
MaxSamples == 2

\* Capacity of the relay channel: mpsc::channel::<Event>(10).
ChanCap == 10

\* ------------------------------------------------------- command line (Cli)

\* Values given to -x/--linear-scale and -a/--angular-scale.
ScaleValues == {2, 3}

\* The parsed command line: the two scale fields of struct Cli.
CliValues == [linear_scale : ScaleValues, angular_scale : ScaleValues]

\* parse_args returns (config, cmd_vel, rosout, angular_scale, linear_scale);
\* only the two scales, in the order the function returns them, are kept.
parse_args(c) == <<c.angular_scale, c.linear_scale>>

\* ------------------------------------------------------------ terminal events

\* KeyCode values the model draws; "Char_a" stands for any other key.
RelayedCodes == {"Up", "Down", "Left", "Right", "Space", "Char_a"}

\* Events crossterm::event::read() may return in Ok: Event::Key(KeyEvent), the
\* quit keys with the CONTROL modifier set or not.
TermEvents ==
    [kind : {"Key"}, code : RelayedCodes, ctrl : {FALSE}]
    \cup [kind : {"Key"}, code : {"Esc", "Char_q", "Char_c"}, ctrl : BOOLEAN]

\* A Twist with the angular argument stored in angular.x.
TwistAngularX(linear, angular) ==
    [linear  |-> [x |-> linear, y |-> 0, z |-> 0],
     angular |-> [x |-> angular, y |-> 0, z |-> 0]]

\* The Twist built by pub_twist(session, cmd_key, linear, angular).
Twist(linear, angular) ==
    [linear  |-> [x |-> linear, y |-> 0, z |-> 0],
     angular |-> [x |-> 0, y |-> 0, z |-> angular]]

\* The value standing for "no pub_twist call".
NoTwist == [none |-> TRUE]

\* ------------------------------------------------------------------- samples

\* struct Log as decoded by cdr::deserialize::<Log>.
LogNav ==
    [stamp |-> [sec |-> 10, nanosec |-> 500], level |-> 2, name |-> "nav",
     msg |-> "starting", file |-> "nav.cpp", function |-> "run", line |-> 42]

\* Payloads a sample may carry: the CDR encoding of a Log, or the same bytes
\* cut short.
Payloads ==
    {[enc |-> "cdr", log |-> LogNav],
     [enc |-> "truncated", log |-> LogNav]}

\* cdr::deserialize::<Log>(payload): Ok(log) for a complete encoding, else Err.
deserialize(p) ==
    IF p.enc = "cdr" THEN [ok |-> TRUE, log |-> p.log]
                     ELSE [ok |-> FALSE, log |-> p.log]

\* A Display that also prints the level, before the name.
DisplayWithLevel(log) ==
    <<"[", log.stamp.sec, ".", log.stamp.nanosec, "] [", log.level, "] [",
      log.name, "]: ", log.msg>>

\* impl fmt::Display for Log: "[{}.{}] [{}]: {}" of sec, nanosec, name, msg.
Display(log) ==
    <<"[", log.stamp.sec, ".", log.stamp.nanosec, "] [", log.name, "]: ", log.msg>>

\* --------------------------------------------------------------------- state

VARIABLES
    cli,        \* the parsed command line (struct Cli, scale fields)
    rawMode,    \* terminal raw mode is enabled
    readerPc,   \* input reader: "reading", "sending", "stopped"
    readerEv,   \* the event the reader is sending (readerPc = "sending")
    readerExit, \* why the reader stopped: "none", "quit", "input_error", "send_error"
    reads,      \* number of terminal events read so far
    chan,       \* contents of the relay channel
    sent,       \* history: ids of the events the reader put on the channel
    consumed,   \* history: ids of the events key_receiver.recv() returned
    bus,        \* samples the subscriber holds, not yet taken by next()
    samples,    \* number of samples delivered so far
    muxPc,      \* main: "start", "select", "publishing", "stopping", "done", "panicked"
    inFlight,   \* the publish in progress: [src, code, twist]; src is the id of
                \* the key event, 0 for the stop command at exit
    published,  \* history: src of every completed session.put call
    rendered,   \* history: lines printed [id, line, cursor]
    warns       \* number of log::warn! calls per kind

vars == <<cli, rawMode, readerPc, readerEv, readerExit, reads, chan, sent,
          consumed, bus, samples, muxPc, inFlight, published,
          rendered, warns>>

envVars == <<cli>>
readerVars == <<readerPc, readerEv, readerExit, reads>>
busVars == <<bus, samples>>
putVars == <<inFlight, published>>

WarnKinds == {"put", "push", "input", "decode"}

NoEvent == [id |-> 0, kind |-> "none", code |-> "none", ctrl |-> FALSE]
NoFlight == [src |-> -1, code |-> "none", twist |-> NoTwist]

\* let (config, cmd_vel, rosout, linear_scale, angular_scale) = parse_args();
linear_scale == parse_args(cli)[1]
angular_scale == parse_args(cli)[2]

\* main has returned or unwound: key_receiver and subscriber are dropped.
MuxTerminated == muxPc \in {"done", "panicked"}

\* The reader task has finished: key_sender is dropped, the channel is closed.
SenderDropped == readerPc = "stopped"

Warn(kind) == [warns EXCEPT ![kind] = @ + 1]

\* A runtime of flavor current_thread: the reader task and main share one
\* thread, which the blocking crossterm::event::read() holds.
ReaderHoldsMainThreadCurrentThread == readerPc = "reading"

\* #[tokio::main] builds the multi-thread runtime: main's future runs on the
\* thread that calls block_on and the task given to tokio::spawn on a worker
\* thread, so the blocking crossterm::event::read() never holds main's thread.
ReaderHoldsMainThread == FALSE

\* main's future can be polled.
MainCanRun == ~ReaderHoldsMainThread

\* State after enable_raw_mode()? succeeded and the reader task was spawned.
Init ==
    /\ cli \in CliValues
    /\ rawMode = TRUE
    /\ readerPc = "reading"
    /\ readerEv = NoEvent
    /\ readerExit = "none"
    /\ reads = 0
    /\ chan = <<>>
    /\ sent = <<>>
    /\ consumed = <<>>
    /\ bus = <<>>
    /\ samples = 0
    /\ muxPc = "start"
    /\ inFlight = NoFlight
    /\ published = <<>>
    /\ rendered = <<>>
    /\ warns = [k \in WarnKinds |-> 0]

\* ---------------------------------------------------------- the relay channel

\* A send that puts the event at the front of the queue.
ChanSendFront(q, ev) == <<ev>> \o q

\* key_sender.send(ev): the event joins the back of the queue.
ChanSend(q, ev) == Append(q, ev)

\* key_receiver.recv() returning Some(ev): the event at the front is taken.
ChanFront(q) == Head(q)
ChanRest(q) == Tail(q)

\* A recv() that is not cancel safe: the event it had taken is dropped with it.
DropRecvLossy(q) == IF q = <<>> THEN q ELSE Tail(q)

\* The recv() future of the select is dropped when the other branch wins:
\* tokio's mpsc recv is cancel safe, no event leaves the queue.
DropRecv(q) == q

\* The next() future of the select is dropped when the other branch wins.
DropNext(b) == b

\* A channel without a bound: send never waits.
HasSlotUnbounded(q) == TRUE

\* key_sender.send(ev).await can complete: fewer than 10 events are queued.
HasSlot(q) == Len(q) < ChanCap

\* recv() yielding None as soon as the sender is dropped.
ChannelClosedEager == SenderDropped

\* recv() waiting for the channel to close before it yields anything.
KeyEventReadyOnClose == chan # <<>> /\ SenderDropped

\* key_receiver.recv() is ready with Some(event): an event is queued.
KeyEventReady == chan # <<>>

\* key_receiver.recv() is ready with None: the queue is empty and the sender
\* is dropped.
ChannelClosed == chan = <<>> /\ SenderDropped

\* ------------------------------------------------------------ the input reader

\* A reader that relays the arrow keys and the space bar only.
ReaderArmRecognizedOnly(ev) ==
    CASE ev.kind = "Err" -> "input_error"
      [] ev.kind = "Key" /\ ev.code \in {"Esc", "Char_q"} -> "quit"
      [] ev.kind = "Key" /\ ev.code = "Char_c" ->
             IF ev.ctrl THEN "quit" ELSE "ignore"
      [] ev.kind = "Key" /\ ev.code \in {"Up", "Down", "Left", "Right", "Space"} ->
             "send"
      [] OTHER -> "ignore"

\* The arm of the reader's match an event takes (lines 155-182).
ReaderArm(ev) ==
    CASE ev.kind = "Err" -> "input_error"
      [] ev.kind = "Key" /\ ev.code \in {"Esc", "Char_q"} -> "quit"
      [] ev.kind = "Key" /\ ev.code = "Char_c" ->
             IF ev.ctrl THEN "quit" ELSE "ignore"
      [] OTHER -> "send"

\* Err(e) of crossterm::event::read().
ReadError == [kind |-> "Err", code |-> "none", ctrl |-> FALSE]

\* crossterm::event::read() returns one of `events`, at most `limit` times in
\* a run; the reader matches on the result. The terminal delivers no further
\* event once main has ended.
ReaderReadFrom(events, limit) ==
    /\ readerPc = "reading"
    /\ ~MuxTerminated
    /\ reads < limit
    /\ \E ev \in events :
         LET arm == ReaderArm(ev) IN
         /\ reads' = reads + 1
         /\ readerPc' = CASE arm \in {"quit", "input_error"} -> "stopped"
                          [] arm = "ignore" -> "reading"
                          [] OTHER -> "sending"
         /\ readerExit' = IF arm \in {"quit", "input_error"} THEN arm ELSE readerExit
         /\ readerEv' = IF arm = "send"
                          THEN [id |-> Len(sent) + 1, kind |-> ev.kind,
                                code |-> ev.code, ctrl |-> ev.ctrl]
                          ELSE NoEvent
         /\ warns' = IF arm = "input_error" THEN Warn("input") ELSE warns
    /\ UNCHANGED <<envVars, rawMode, chan, sent, consumed, busVars, muxPc,
                   putVars, rendered>>

\* The reader on a terminal that may deliver any event of TermEvents or fail.
ReaderRead == ReaderReadFrom(TermEvents \cup {ReadError}, MaxReads)

\* key_sender.send(ev).await completes: Ok when a slot is free, Err when the
\* receiver is gone; it stays pending while the channel is full.
ReaderSend ==
    /\ readerPc = "sending"
    /\ IF MuxTerminated
         THEN /\ readerPc' = "stopped"
              /\ readerExit' = "send_error"
              /\ warns' = Warn("push")
              /\ UNCHANGED <<chan, sent>>
         ELSE /\ HasSlot(chan)
              /\ chan' = ChanSend(chan, readerEv)
              /\ sent' = Append(sent, readerEv.id)
              /\ readerPc' = "reading"
              /\ UNCHANGED <<readerExit, warns>>
    /\ readerEv' = NoEvent
    /\ UNCHANGED <<envVars, rawMode, reads, consumed, busVars, muxPc, putVars,
                   rendered>>

\* ------------------------------------------------------------- the subscriber

\* A sample published on the rosout key reaches the subscriber.
SampleArrives ==
    /\ ~MuxTerminated
    /\ samples < MaxSamples
    /\ \E p \in Payloads :
         bus' = Append(bus, [id |-> samples + 1, payload |-> p])
    /\ samples' = samples + 1
    /\ UNCHANGED <<envVars, rawMode, readerVars, chan, sent, consumed, muxPc,
                   putVars, rendered, warns>>

\* --------------------------------------------------- the events management loop

\* The match with the Space arm copied from the Up arm.
KeyTwistSpaceAsUp(ev, lin, ang) ==
    CASE ev.kind = "Key" /\ ev.code = "Up"    -> Twist(1 * lin, 0)
      [] ev.kind = "Key" /\ ev.code = "Down"  -> Twist((-1) * lin, 0)
      [] ev.kind = "Key" /\ ev.code = "Left"  -> Twist(0, 1 * ang)
      [] ev.kind = "Key" /\ ev.code = "Right" -> Twist(0, (-1) * ang)
      [] ev.kind = "Key" /\ ev.code = "Space" -> Twist(1 * lin, 0)
      [] OTHER -> NoTwist

\* The match with a last arm that stops the robot on any other event.
KeyTwistOtherStops(ev, lin, ang) ==
    CASE ev.kind = "Key" /\ ev.code = "Up"    -> Twist(1 * lin, 0)
      [] ev.kind = "Key" /\ ev.code = "Down"  -> Twist((-1) * lin, 0)
      [] ev.kind = "Key" /\ ev.code = "Left"  -> Twist(0, 1 * ang)
      [] ev.kind = "Key" /\ ev.code = "Right" -> Twist(0, (-1) * ang)
      [] OTHER -> Twist(0, 0)

\* The arm of the key branch's match (lines 209-224): the (linear, angular)
\* arguments of the pub_twist call, or NoTwist for Some(_) => ().
KeyTwist(ev, lin, ang) ==
    CASE ev.kind = "Key" /\ ev.code = "Up"    -> Twist(1 * lin, 0)
      [] ev.kind = "Key" /\ ev.code = "Down"  -> Twist((-1) * lin, 0)
      [] ev.kind = "Key" /\ ev.code = "Left"  -> Twist(0, 1 * ang)
      [] ev.kind = "Key" /\ ev.code = "Right" -> Twist(0, (-1) * ang)
      [] ev.kind = "Key" /\ ev.code = "Space" -> Twist(0, 0)
      [] OTHER -> NoTwist

\* A pub_twist call that is not awaited: main selects again at once.
PutAwaitedDetached == "select"

\* Where main is while a pub_twist(..).await of the loop is pending: the call
\* is awaited inside the match arm, main does not select meanwhile.
PutAwaited == "publishing"

\* A pub_twist that unwraps the result of session.put(..).await.
AfterPutUnwrap(pc, ok) ==
    IF ~ok THEN "panicked" ELSE IF pc = "publishing" THEN "select" ELSE "done"

\* Where main goes when session.put(..).await returns inside pub_twist: an Err
\* is only logged, so the result does not matter. From the loop it selects
\* again; after the loop it disables raw mode and returns.
AfterPut(pc, ok) == IF pc = "publishing" THEN "select" ELSE "done"

\* A subscriber branch that unwraps the result of cdr::deserialize.
AfterDecodeErrUnwrap == "panicked"

\* Where main goes when cdr::deserialize returns Err: the error is logged.
AfterDecodeErr == "select"

\* What the subscriber branch prints for a decoded Log: println!("{}", log).
Render(id, log, cursor) == [id |-> id, line |-> Display(log), cursor |-> cursor]

\* println! of the banner and MoveToColumn(0).unwrap() before the loop.
Banner ==
    /\ MainCanRun
    /\ muxPc = "start"
    /\ \E cursor \in BOOLEAN : muxPc' = IF cursor THEN "select" ELSE "panicked"
    /\ UNCHANGED <<envVars, rawMode, readerVars, chan, sent, consumed, busVars,
                   putVars, rendered, warns>>

\* select! takes the subscriber branch with Some(sample) (lines 193-204).
SelectSample ==
    /\ MainCanRun
    /\ muxPc = "select"
    /\ bus # <<>>
    /\ chan' = DropRecv(chan)
    /\ bus' = Tail(bus)
    /\ LET s == Head(bus)
           d == deserialize(s.payload)
       IN IF d.ok
            THEN \E cursor \in BOOLEAN :
                   /\ rendered' = Append(rendered, Render(s.id, d.log, cursor))
                   /\ muxPc' = IF cursor THEN "select" ELSE "panicked"
                   /\ warns' = warns
            ELSE /\ warns' = Warn("decode")
                 /\ muxPc' = AfterDecodeErr
                 /\ rendered' = rendered
    /\ UNCHANGED <<envVars, rawMode, readerVars, sent, consumed, samples,
                   putVars>>

\* select! takes the subscriber branch with None: the stream has ended, which
\* next() reports once no sample is held; sample.unwrap() panics (line 194).
SelectStreamEnd ==
    /\ MainCanRun
    /\ muxPc = "select"
    /\ bus = <<>>
    /\ chan' = DropRecv(chan)
    /\ muxPc' = "panicked"
    /\ UNCHANGED <<envVars, rawMode, readerVars, sent, consumed, busVars,
                   putVars, rendered, warns>>

\* select! takes the channel branch with Some(event) (lines 207-224).
SelectKey ==
    /\ MainCanRun
    /\ muxPc = "select"
    /\ KeyEventReady
    /\ bus' = DropNext(bus)
    /\ LET ev == ChanFront(chan)
           twist == KeyTwist(ev, linear_scale, angular_scale)
       IN /\ chan' = ChanRest(chan)
          /\ consumed' = Append(consumed, ev.id)
          /\ IF twist = NoTwist
               THEN UNCHANGED <<muxPc, inFlight>>
               ELSE /\ muxPc' = PutAwaited
                    /\ inFlight' = [src |-> ev.id, code |-> ev.code,
                                    twist |-> twist]
    /\ UNCHANGED <<envVars, rawMode, readerVars, sent, samples, published,
                   rendered, warns>>

\* select! takes the channel branch with None (lines 225-228): break, then
\* the stop command of line 234 is started.
SelectClosed ==
    /\ MainCanRun
    /\ muxPc = "select"
    /\ ChannelClosed
    /\ bus' = DropNext(bus)
    /\ muxPc' = "stopping"
    /\ inFlight' = [src |-> 0, code |-> "exit", twist |-> Twist(0, 0)]
    /\ UNCHANGED <<envVars, rawMode, readerVars, chan, sent, consumed, samples,
                   published, rendered, warns>>

\* session.put(cmd_key, encoded).await returns inside pub_twist (lines 122-125);
\* after the stop command of line 234, disable_raw_mode() follows (line 235)
\* and is taken to succeed.
PutComplete ==
    /\ MainCanRun
    /\ muxPc \in {"publishing", "stopping"}
    /\ \E ok \in BOOLEAN :
         /\ published' = Append(published, inFlight.src)
         /\ warns' = IF ok THEN warns ELSE Warn("put")
         /\ muxPc' = AfterPut(muxPc, ok)
         /\ rawMode' = IF AfterPut(muxPc, ok) = "done" THEN FALSE ELSE rawMode
    /\ inFlight' = NoFlight
    /\ UNCHANGED <<envVars, readerVars, chan, sent, consumed, busVars, rendered>>

Next ==
    \/ ReaderRead
    \/ ReaderSend
    \/ SampleArrives
    \/ Banner
    \/ SelectSample
    \/ SelectStreamEnd
    \/ SelectKey
    \/ SelectClosed
    \/ PutComplete

Spec == Init /\ [][Next]_vars

\* A user who holds the Up key down and may press Esc: the terminal delivers
\* up to MaxBurst events, more than the channel can hold.
MaxBurst == 12

BurstEvents ==
    {[kind |-> "Key", code |-> c, ctrl |-> FALSE] : c \in {"Up", "Esc"}}

BurstRead == ReaderReadFrom(BurstEvents, MaxBurst)

BurstNext ==
    \/ BurstRead
    \/ ReaderSend
    \/ SampleArrives
    \/ Banner
    \/ SelectSample
    \/ SelectStreamEnd
    \/ SelectKey
    \/ SelectClosed
    \/ PutComplete

BurstSpec == Init /\ [][BurstNext]_vars

\* Scheduling: the select! of the loop polls its branches in random order, so a
\* branch that is ready again and again is taken. The channel branch stays
\* ready from one select to the next, so weak fairness states this for it; the
\* subscriber branch is not ready while a put is awaited and needs strong
\* fairness. A put, a send with a free slot and the banner complete. Terminal
\* input, sample arrival and failures are up to the environment and get no
\* fairness.
Fairness ==
    /\ WF_vars(Banner)
    /\ WF_vars(PutComplete)
    /\ WF_vars(ReaderSend)
    /\ WF_vars(SelectClosed)
    /\ WF_vars(SelectKey)
    /\ SF_vars(SelectSample)

FairSpec == Init /\ [][Next]_vars /\ Fairness

\* ================================================================== properties

\* The multiplexer states of the specification, read off main's position:
\* Running is the loop, Stopping the stop command after it, Stopped the return.
MuxState ==
    CASE muxPc = "start" -> "Starting"
      [] muxPc \in {"select", "publishing"} -> "Running"
      [] muxPc = "stopping" -> "Stopping"
      [] muxPc = "done" -> "Stopped"
      [] OTHER -> "Aborted"

ZeroVector == [x |-> 0, y |-> 0, z |-> 0]
ZeroTwist == [linear |-> ZeroVector, angular |-> ZeroVector]

\* The ids of the events queued in the channel, front first.
ChanIds == [i \in 1..Len(chan) |-> chan[i].id]

\* The key-derived part of the publish history.
KeyPublished == SelectSeq(published, LAMBDA src : src # 0)

StrictlyIncreasing(q) == \A i, j \in DOMAIN q : i < j => q[i] < q[j]

\* C1: for every directional key the command handed to the transport is the
\* one of the table, scaled by the -x/--linear-scale value for Up and Down and
\* by the -a/--angular-scale value for Left and Right.
C1_DirectionalTable ==
    /\ inFlight.code = "Up" =>
         inFlight.twist = [linear  |-> [x |-> cli.linear_scale, y |-> 0, z |-> 0],
                           angular |-> ZeroVector]
    /\ inFlight.code = "Down" =>
         inFlight.twist = [linear  |-> [x |-> -cli.linear_scale, y |-> 0, z |-> 0],
                           angular |-> ZeroVector]
    /\ inFlight.code = "Left" =>
         inFlight.twist = [linear  |-> ZeroVector,
                           angular |-> [x |-> 0, y |-> 0, z |-> cli.angular_scale]]
    /\ inFlight.code = "Right" =>
         inFlight.twist = [linear  |-> ZeroVector,
                           angular |-> [x |-> 0, y |-> 0, z |-> -cli.angular_scale]]

\* C10: the command published for the Space key is the all-zero Twist, for
\* every value of the two scales.
C10_SpaceIsZero == inFlight.code = "Space" => inFlight.twist = ZeroTwist

\* A Space command is being published under scales that differ.
C10_Witness ==
    /\ muxPc = "publishing"
    /\ inFlight.code = "Space"
    /\ cli.linear_scale = 2
    /\ cli.angular_scale = 3

\* C2: once the reader has read a quit key it is stopped with nothing left to
\* relay, and when main has ended the publish history ends with the stop
\* command of the exit, which is the only one of its kind.
C2_QuitEndsWithOneStop ==
    readerExit = "quit" =>
        /\ readerPc = "stopped"
        /\ readerEv = NoEvent
        /\ MuxTerminated =>
             /\ published # <<>>
             /\ published[Len(published)] = 0
             /\ Len(KeyPublished) = Len(published) - 1

\* C3: when main has ended, by return or by panic, raw mode is disabled.
C3_RawModeRestored == MuxTerminated => ~rawMode

\* C4: the multiplexer only moves Running -> Stopping -> Stopped: it leaves
\* Running only on observing the closed channel, and it reaches Stopped only
\* with the stop command published last and raw mode disabled.
C4_StateMachine ==
    [][/\ (MuxState = "Running" /\ MuxState' # "Running") =>
             (MuxState' = "Stopping" /\ ChannelClosed)
       /\ (MuxState = "Stopping" /\ MuxState' # "Stopping") =>
             /\ MuxState' = "Stopped"
             /\ published' # <<>>
             /\ published'[Len(published')] = 0
             /\ ~rawMode'
       /\ MuxState = "Stopped" => MuxState' = "Stopped"]_vars

\* The subscriber branch takes a sample whose payload does not decode.
DecodeFailStep ==
    /\ muxPc = "select"
    /\ bus # <<>>
    /\ ~deserialize(Head(bus).payload).ok
    /\ bus' = Tail(bus)

\* C5: handling a sample that fails to decode logs exactly one warning, renders
\* nothing, and leaves main in the loop at the select with the channel, the
\* other samples and the terminal mode untouched.
C5_DecodeErrorKeepsLoop ==
    [][DecodeFailStep =>
          /\ warns' = [warns EXCEPT !["decode"] = @ + 1]
          /\ rendered' = rendered
          /\ muxPc' = "select"
          /\ chan' = chan
          /\ UNCHANGED <<rawMode, putVars, consumed>>]_vars

\* After a first sample that failed to decode, the second sample was rendered
\* and a key command was published.
C5_Witness ==
    /\ warns["decode"] = 1
    /\ Len(rendered) = 1
    /\ rendered[1].id = 2
    /\ KeyPublished # <<>>

\* The step in which session.put returns Err.
PutFailStep == warns'["put"] # warns["put"]

\* The step in which recv() returns Some(event).
RecvStep == consumed' # consumed

\* C6: a failed put is logged once and changes nothing else: the attempt is
\* recorded once and not repeated, main goes back to the select (or, after the
\* stop command, disables raw mode and returns) with the channel and the
\* samples untouched. Each received event of the five recognized keys starts
\* one put, and no event is published twice.
C6_PutFailureIsLogged ==
    /\ [][PutFailStep =>
            /\ warns' = [warns EXCEPT !["put"] = @ + 1]
            /\ published' = Append(published, inFlight.src)
            /\ inFlight' = NoFlight
            /\ muxPc' = (IF muxPc = "publishing" THEN "select" ELSE "done")
            /\ (muxPc = "stopping" => ~rawMode')
            /\ UNCHANGED <<chan, bus, consumed, rendered>>]_vars
    /\ [][RecvStep =>
            IF Head(chan).code \in {"Up", "Down", "Left", "Right", "Space"}
              THEN /\ muxPc' = "publishing"
                   /\ inFlight'.src = Head(chan).id
                   /\ published' = published
              ELSE UNCHANGED <<muxPc, putVars>>]_vars
    /\ [](\A i, j \in DOMAIN published : i # j => published[i] # published[j])

\* Both the key command and the stop command failed, and main still returned
\* with raw mode disabled.
C6_Witness ==
    /\ muxPc = "done"
    /\ ~rawMode
    /\ Len(published) = 2
    /\ warns["put"] = 2

\* Event id is queued in the channel; sample id is held by the subscriber.
KeyQueued(id) == \E i \in DOMAIN chan : chan[i].id = id
SampleHeld(id) == \E i \in DOMAIN bus : bus[i].id = id

\* Event id was received; main is no longer in the loop.
KeyReceived(id) == \E i \in DOMAIN consumed : consumed[i] = id
LoopLeft == muxPc \in {"stopping", "done", "panicked"}

C8_OrderPreserved ==
    /\ StrictlyIncreasing(KeyPublished)
    /\ StrictlyIncreasing(consumed)
    /\ StrictlyIncreasing([i \in DOMAIN rendered |-> rendered[i].id])
    /\ inFlight.src > 0 => \A i \in DOMAIN published : published[i] < inFlight.src

\* Two key commands were published and two samples rendered.
C8_Witness ==
    /\ Len(KeyPublished) >= 2
    /\ Len(rendered) >= 2

\* The step in which the subscriber branch of the select wins.
SampleBranchStep == muxPc = "select" /\ bus # <<>> /\ bus' = Tail(bus)

\* C9: the events received so far followed by the events still queued are
\* exactly the events sent, each once; a step of the subscriber branch leaves
\* the queue as it is; and when main returns the queue is empty.
C9_ConsumedExactlyOnce ==
    /\ [](consumed \o ChanIds = sent)
    /\ [](\A i, j \in DOMAIN consumed : i # j => consumed[i] # consumed[j])
    /\ [](muxPc = "done" => chan = <<>> /\ consumed = sent)
    /\ [][SampleBranchStep => chan' = chan /\ consumed' = consumed]_vars

\* A key event is queued while a sample is ready at the select, after an
\* earlier event was received and an earlier sample taken.
C9_Witness ==
    /\ muxPc = "select"
    /\ chan # <<>>
    /\ bus # <<>>
    /\ consumed # <<>>
    /\ Len(rendered) + warns["decode"] > 0
    /\ Len(sent) = Len(consumed) + Len(chan)

\* The step in which a session.put is started.
PutStartStep == inFlight' # NoFlight /\ inFlight' # inFlight

\* C11: a put is started only while none is pending, from the select, and main
\* then waits for it: a put is pending exactly while main awaits pub_twist, in
\* the loop or for the stop command after it.
C11_OnePutInFlight ==
    /\ [][PutStartStep =>
            /\ inFlight = NoFlight
            /\ muxPc = "select"
            /\ muxPc' \in {"publishing", "stopping"}]_vars
    /\ [](inFlight # NoFlight <=> muxPc \in {"publishing", "stopping"})

\* The stop command is pending after two key commands have completed.
C11_Witness ==
    /\ muxPc = "stopping"
    /\ inFlight.src = 0
    /\ Len(published) = 2

Recognized == {"Up", "Down", "Left", "Right", "Space"}
QuitOrC == {"Esc", "Char_q", "Char_c"}

\* C13 as stated: only events of the five recognized keys are ever queued in
\* the channel.
C13_OnlyRecognizedRelayed == \A i \in DOMAIN chan : chan[i].code \in Recognized

\* C13 as amended: the reader relays every event that is not Esc, 'q' or 'c',
\* recognized or not, and never one of these three: an event takes the send
\* arm exactly when its key is none of them, and no queued or pending event
\* carries one of them.
C13_AllButQuitKeysRelayed ==
    /\ \A ev \in TermEvents : ReaderArm(ev) = "send" <=> ev.code \notin QuitOrC
    /\ \A i \in DOMAIN chan : chan[i].code \notin QuitOrC
    /\ readerPc = "sending" => readerEv.code \notin QuitOrC

\* An event of a key that is not recognized occupies a channel slot.
C13_Witness == \E i \in DOMAIN chan : chan[i].code = "Char_a"

\* C14: after a terminal read error the reader is stopped, and when main has
\* ended it has returned with every relayed event received, the stop command
\* published last and raw mode disabled.
C14_ReadErrorShutsDownGracefully ==
    readerExit = "input_error" =>
        /\ readerPc = "stopped"
        /\ warns["input"] = 1
        /\ MuxTerminated =>
             /\ muxPc = "done"
             /\ chan = <<>>
             /\ consumed = sent
             /\ published # <<>>
             /\ published[Len(published)] = 0
             /\ ~rawMode

\* C15: a command handed to the transport has linear.y, linear.z, angular.x
\* and angular.y equal to zero and linear.x or angular.z equal to zero.
C15_OneAxis ==
    inFlight # NoFlight =>
        /\ inFlight.twist.linear.y = 0
        /\ inFlight.twist.linear.z = 0
        /\ inFlight.twist.angular.x = 0
        /\ inFlight.twist.angular.y = 0
        /\ inFlight.twist.linear.x = 0 \/ inFlight.twist.angular.z = 0

\* A turn command with a non-zero angular.z is pending after a command with a
\* non-zero linear part was published.
C15_Witness ==
    /\ muxPc = "publishing"
    /\ inFlight.code = "Left"
    /\ inFlight.twist.angular.z # 0
    /\ published # <<>>

\* The subscriber branch takes a sample whose payload decodes.
DecodeOkStep ==
    /\ muxPc = "select"
    /\ bus # <<>>
    /\ deserialize(Head(bus).payload).ok
    /\ bus' = Tail(bus)

\* The line of a Log: "[", sec, ".", nanosec, "] [", name, "]: ", msg.
ExpectedLine(log) ==
    <<"[", log.stamp.sec, ".", log.stamp.nanosec, "] [", log.name, "]: ", log.msg>>

\* C16: taking a decodable sample prints exactly one line, made of sec,
\* nanosec, name and msg in the form [sec.nanosec] [name]: msg, once per
\* sample; the Log of the example prints as [10.500] [nav]: starting; and main
\* handles a further event only with the cursor moved to column zero.
C16_RenderedOnce ==
    /\ [][DecodeOkStep =>
            /\ Len(rendered') = Len(rendered) + 1
            /\ rendered'[Len(rendered')].id = Head(bus).id
            /\ rendered'[Len(rendered')].line =
                   ExpectedLine(Head(bus).payload.log)
            /\ rendered'[Len(rendered')].line =
                   <<"[", 10, ".", 500, "] [", "nav", "]: ", "starting">>
            /\ SubSeq(rendered', 1, Len(rendered)) = rendered
            /\ rendered'[Len(rendered')].cursor <=> muxPc' = "select"
            /\ ~rendered'[Len(rendered')].cursor <=> muxPc' = "panicked"]_vars
    /\ [](\A i, j \in DOMAIN rendered : i # j => rendered[i].id # rendered[j].id)
    /\ [](\A i \in DOMAIN rendered :
            rendered[i].cursor \/ (i = Len(rendered) /\ muxPc = "panicked"))

\* Two samples were rendered, each followed by the cursor move, and a key event
\* was received afterwards or in between.
C16_Witness ==
    /\ Len(rendered) = 2
    /\ rendered[2].cursor
    /\ consumed # <<>>

\* C17: main takes the None of the channel only with the queue empty: whenever
\* the stop command of the exit is pending or published, every event the
\* reader sent has been received and every key command was published before
\* it, whether the reader stopped on a quit key or on a read error.
C17_QueuedEventsSurviveStop ==
    /\ [][muxPc' = "stopping" /\ muxPc # "stopping" =>
            /\ readerPc = "stopped"
            /\ chan = <<>>
            /\ consumed = sent]_vars
    /\ [][RecvStep /\ Head(chan).code \in Recognized =>
            /\ muxPc' = "publishing"
            /\ inFlight'.src = Head(chan).id]_vars
    /\ [](muxPc = "stopping" => inFlight.src = 0)
    /\ [](muxPc \in {"stopping", "done"} =>
            /\ chan = <<>>
            /\ consumed = sent
            /\ \A i \in DOMAIN published :
                 published[i] = 0 => i = Len(published))

\* The reader has stopped while two events wait in the channel.
C17_Witness ==
    /\ readerPc = "stopped"
    /\ readerExit \in {"quit", "input_error"}
    /\ Len(chan) = 2
    /\ muxPc = "select"

\* C19: receiving an event of no recognized key changes nothing but the queue;
\* a step of the subscriber branch starts and completes no put; receiving any
\* event prints no line and logs no decode warning.
C19_Frame ==
    /\ [][RecvStep /\ Head(chan).code \notin Recognized =>
            UNCHANGED <<muxPc, putVars, rendered, warns, rawMode, bus>>]_vars
    /\ [][SampleBranchStep => UNCHANGED <<putVars, consumed, chan>>]_vars
    /\ [][RecvStep => UNCHANGED <<rendered, warns, bus>>]_vars

\* The only event sent was received and no put was started for it.
C19_Witness ==
    /\ sent = <<1>>
    /\ consumed = <<1>>
    /\ published = <<>>
    /\ inFlight = NoFlight
    /\ muxPc = "select"
    /\ rendered # <<>>

\* C18: the channel never holds more than ChanCap = 10 events; while it is
\* full, the reader is in its send and main runs, the send cannot complete and no step
\* reads a terminal event (a quit key included) or queues one, and the reader
\* is still in that send afterwards; every event sent is either received or
\* still queued, in the order it was sent.
C18_BackPressure ==
    /\ [](Len(chan) <= ChanCap)
    /\ [](Len(chan) = ChanCap /\ readerPc = "sending" /\ ~MuxTerminated =>
            ~ENABLED ReaderSend /\ ~ENABLED BurstRead)
    /\ [][Len(chan) = ChanCap /\ readerPc = "sending" /\ ~MuxTerminated =>
            /\ reads' = reads
            /\ sent' = sent
            /\ readerPc' = "sending"
            /\ readerEv' = readerEv]_vars
    /\ [](consumed \o ChanIds = sent)
    /\ [](StrictlyIncreasing(sent))

\* The channel holds ten events and the reader is suspended in the send of an
\* eleventh while main is in its select.
C18_Witness ==
    /\ Len(chan) = ChanCap
    /\ readerPc = "sending"
    /\ readerEv.id = ChanCap + 1
    /\ muxPc = "select"

====
